---- MODULE Spec2Model ----
(***************************************************************************)
(* custom_rnn_rewriter.py of tf2onnx: the pass that recognises a           *)
(* dynamic_rnn while-loop (need_rewrite) and replaces it by a Scan node    *)
(* (rewrite), with the Shape/Reshape adapters that add or strip the fake   *)
(* batch axis.                                                             *)
(*                                                                         *)
(* Representation.  A Python str is a sequence of tokens (a token is "/"   *)
(* or a word that holds no "/"), so + is \o, and split, join and           *)
(* startswith are computed on it.  A tensor id is a sequence of naturals;  *)
(* the empty sequence stands for the falsy ids (None and "").  An optional *)
(* shape is None (<<>>) or Some(dims) (<<dims>>).  A dtype is a string,    *)
(* "None" when it is unset.                                                *)
(***************************************************************************)
EXTENDS Integers, Sequences, FiniteSets, TLC

VARIABLES
    mode,                 \* which entry point this behaviour exercises
    while_context_scope,  \* context.while_context_scope
    state_variables,      \* loop_properties: the non-tensor-array loop variables, in order
    scan_variables,       \* loop_properties: the tensor-array loop variables, in order
    tensor_array_inputs,  \* loop_properties.tensor_array_inputs
    context,              \* CustomRnnContext: rnn_scope, time_var, iteration_var
    need_result,          \* what need_rewrite returned ("pending" before the call)
    g,                    \* the graph: its set of nodes
    g_before,             \* the graph as it was when rewrite was entered
    next_id,              \* the graph's counter for the names/ids of new nodes
    pc,                   \* rewrite's position
    init_values,          \* state_inputs_initial_values + scan_inputs_initial_values so far
    scan_body_g,          \* the body graph: [built, inputs]
    scan_node,            \* the scan node rewrite holds (NoNode before it is made)
    result,               \* what rewrite returned ("pending" before it returns)
    fault_at,             \* the step of rewrite that raised or gave no node ("none" if none did)
    adapt_call,           \* the adapter called alone: its arguments
    adapt_ret             \* the adapter called alone: what it returned

vars == <<mode, while_context_scope, state_variables, scan_variables, tensor_array_inputs,
          context, need_result, g, g_before, next_id, pc, init_values, scan_body_g,
          scan_node, result, fault_at, adapt_call, adapt_ret>>

----------------------------------------------------------------------------
(* Bounds of the model.                                                    *)

\* most loop variables plus tensor-array inputs of a loop given to need_rewrite
MaxVars == 4
\* most state variables plus scan variables plus tensor-array inputs of a loop given to rewrite
MaxLoop == 3
\* longest shape given to the adapter called alone
MaxRank == 3

----------------------------------------------------------------------------
(* Python values.                                                          *)

None == <<>>
Some(x) == <<x>>
IsNone(o) == o = <<>>
Val(o) == o[1]

\* list[a:] of Python, for a >= 0
SliceFrom(s, a) == IF a >= Len(s) THEN <<>> ELSE SubSeq(s, a + 1, Len(s))

\* list[0:-2] of Python
SliceDropLast2(s) == IF Len(s) <= 2 THEN <<>> ELSE SubSeq(s, 1, Len(s) - 2)

\* list.count(x)
Count(s, x) == Cardinality({i \in DOMAIN s : s[i] = x})

\* str.startswith
StartsWith(s, p) == Len(p) <= Len(s) /\ SubSeq(s, 1, Len(p)) = p

\* str.split('/'): the pieces between the "/" tokens, empty pieces kept
RECURSIVE SplitFrom(_, _, _)
SplitFrom(s, i, cur) ==
    IF i > Len(s) THEN <<cur>>
    ELSE IF s[i] = "/" THEN <<cur>> \o SplitFrom(s, i + 1, <<>>)
    ELSE SplitFrom(s, i + 1, Append(cur, s[i]))

Split(s) == SplitFrom(s, 1, <<>>)

\* '/'.join(parts)
RECURSIVE Join(_)
Join(parts) ==
    IF Len(parts) = 0 THEN <<>>
    ELSE IF Len(parts) = 1 THEN parts[1]
    ELSE parts[1] \o <<"/">> \o Join(Tail(parts))

----------------------------------------------------------------------------
(* The graph (tf2onnx.graph.Graph), as this pass uses it.                  *)

\* onnx_pb.TensorProto.FLOAT and onnx_pb.TensorProto.INT64
ToFloat == "to=FLOAT"
ToInt64 == "to=INT64"
\* {"axes": [0], "starts": [1], "ends": [sys.maxsize]}
SliceDropFirstAxis == "axes=[0],starts=[1],ends=[sys.maxsize]"
ConcatAxis0 == "axis=0"

\* a node: name is a str (for a node the pass makes, the name or scope it asked for)
NoNode == [op |-> "", name |-> <<>>, input |-> <<>>, output |-> <<>>, attr |-> "",
           tensor_array_name |-> <<>>, value |-> <<>>, shapes |-> <<>>, dtypes |-> <<>>,
           num_scan_inputs |-> -1, body |-> <<>>]

\* the k-th node the pass creates has the output ids <<NewIdBase + k, 0>>, <<NewIdBase + k, 1>>, ...
NewIdBase == 10

\* Graph.make_node: the node it creates (the graph gains it, see AddNodes)
make_node(nid, op, inputs, attr, output_count, shapes, dtypes, op_name_scope) ==
    [NoNode EXCEPT !.op = op, !.name = op_name_scope, !.input = inputs,
                   !.output = [k \in 1..output_count |-> <<NewIdBase + nid, k - 1>>],
                   !.attr = attr, !.shapes = shapes, !.dtypes = dtypes]

\* Graph.make_const: a Const node holding np_val as int64
make_const(nid, name, np_val) ==
    [NoNode EXCEPT !.op = "Const", !.name = name, !.input = <<>>,
                   !.output = <<<<NewIdBase + nid, 0>>>>,
                   !.value = np_val, !.shapes = <<Some(<<Len(np_val)>>)>>,
                   !.dtypes = <<"int64">>]

\* the nodes of a sequence, as the graph gains them
AddNodes(gr, nodes) == gr \cup {nodes[i] : i \in DOMAIN nodes}

\* Graph.get_node_by_output: the nodes that produce the tensor (at most one)
get_node_by_output(gr, id) == {n \in gr : \E k \in DOMAIN n.output : n.output[k] = id}

OutputIndex(n, id) == CHOOSE k \in DOMAIN n.output : n.output[k] = id

\* Graph.get_shape: the shape recorded for the tensor, None when there is none
get_shape(gr, id) ==
    IF get_node_by_output(gr, id) = {} THEN None
    ELSE LET n == CHOOSE m \in get_node_by_output(gr, id) : TRUE
             k == OutputIndex(n, id)
         IN  IF k \in DOMAIN n.shapes THEN n.shapes[k] ELSE None

\* Graph.get_dtype: the dtype recorded for the tensor, "None" when there is none
get_dtype(gr, id) ==
    IF get_node_by_output(gr, id) = {} THEN "None"
    ELSE LET n == CHOOSE m \in get_node_by_output(gr, id) : TRUE
             k == OutputIndex(n, id)
         IN  IF k \in DOMAIN n.dtypes THEN n.dtypes[k] ELSE "None"

\* Graph.remove_node, given the node
remove_node(gr, n) == gr \ {n}

\* Graph.replace_all_inputs(self.g.get_nodes(), old_input, new_input)
replace_all_inputs(gr, old_input, new_input) ==
    {[n EXCEPT !.input = [k \in DOMAIN n.input |->
                             IF n.input[k] = old_input THEN new_input ELSE n.input[k]]]
       : n \in gr}

\* every tensor id some node of the graph reads
Consumed(gr) == UNION {{n.input[k] : k \in DOMAIN n.input} : n \in gr}

----------------------------------------------------------------------------
(* _adapt_scan_sequence_input_or_output.                                   *)

\* the tests that pick the constant target shape
OutputIsStaticAnyKnown(inferred_shape) == ~IsNone(inferred_shape)

OutputIsStatic(inferred_shape) ==
    ~IsNone(inferred_shape) /\ Count(SliceFrom(Val(inferred_shape), 1), -1) <= 1

InputIsStatic(inferred_shape) ==
    ~IsNone(inferred_shape) /\ Count(Val(inferred_shape), -1) <= 1

\* The nodes made before new_shape is computed (lines 194-218 and 223-235):
\* the Shape node, then what computes the Reshape's shape input.
AdaptShapeNodes(gr, nid, target_name, input_id, handle_output) ==
    LET shape_node == make_node(nid, "Shape", <<input_id>>, "", 1, <<>>, <<>>, <<>>)
        inferred_shape == get_shape(gr, input_id)
    IN  IF handle_output
        THEN IF OutputIsStatic(inferred_shape)
             THEN <<shape_node,
                    make_const(nid + 1, target_name \o <<"_target_shape">>,
                               SliceFrom(Val(inferred_shape), 1))>>
             ELSE LET origin_shape_node ==
                          make_node(nid + 1, "Cast", <<shape_node.output[1]>>, ToFloat,
                                    1, <<>>, <<>>, <<>>)
                      sliced_shape_node ==
                          make_node(nid + 2, "Slice", <<origin_shape_node.output[1]>>,
                                    SliceDropFirstAxis, 1, <<>>, <<>>, <<>>)
                      new_shape_node ==
                          make_node(nid + 3, "Cast", <<sliced_shape_node.output[1]>>, ToInt64,
                                    1, <<>>, <<>>, <<>>)
                  IN  <<shape_node, origin_shape_node, sliced_shape_node, new_shape_node>>
        ELSE IF InputIsStatic(inferred_shape)
             THEN <<shape_node,
                    make_const(nid + 1, target_name \o <<"_target_shape">>,
                               <<1>> \o Val(inferred_shape))>>
             ELSE LET fake_batch_size_node ==
                          make_const(nid + 1, target_name \o <<"_target_shape">>, <<1>>)
                      new_shape_node ==
                          make_node(nid + 2, "Concat",
                                    <<fake_batch_size_node.output[1], shape_node.output[1]>>,
                                    ConcatAxis0, 1, <<>>, <<>>, <<>>)
                  IN  <<shape_node, fake_batch_size_node, new_shape_node>>

\* The whole adapter: [raised, nodes, g, next_id].  new_shape (lines 220 and 236) slices
\* or extends inferred_shape, which raises TypeError when it is None: the nodes made so
\* far stay in the graph and nothing is returned.
_adapt_scan_sequence_input_or_output(gr, nid, target_name, input_id, handle_output) ==
    LET inferred_shape == get_shape(gr, input_id)
        made == AdaptShapeNodes(gr, nid, target_name, input_id, handle_output)
        new_shape_node == made[Len(made)]
    IN  IF IsNone(inferred_shape)
        THEN [raised |-> TRUE, nodes |-> <<>>,
              g |-> AddNodes(gr, made), next_id |-> nid + Len(made)]
        ELSE LET new_shape == IF handle_output
                              THEN SliceFrom(Val(inferred_shape), 1)
                              ELSE <<1>> \o Val(inferred_shape)
                 reshape_node ==
                     make_node(nid + Len(made), "Reshape",
                               <<input_id, new_shape_node.output[1]>>, "", 1,
                               <<Some(new_shape)>>, <<get_dtype(gr, input_id)>>, target_name)
                 nodes_to_add == Append(made, reshape_node)
             IN  [raised |-> FALSE, nodes |-> nodes_to_add,
                  g |-> AddNodes(gr, nodes_to_add), next_id |-> nid + Len(nodes_to_add)]

----------------------------------------------------------------------------
(* LoopProperties (tf2onnx.rewriter.loop_rewriter_base): the lists the     *)
(* pass reads, each derived from the loop's variables.                     *)

state_inputs == [i \in DOMAIN state_variables |-> state_variables[i].switch_true_identity_output]
state_inputs_initial_values == [i \in DOMAIN state_variables |-> state_variables[i].enter_input_id]
state_outputs == [i \in DOMAIN state_variables |-> state_variables[i].next_iteration_input]
state_outputs_exits == [i \in DOMAIN state_variables |-> state_variables[i].exit_output]
scan_outputs == [j \in DOMAIN scan_variables |-> scan_variables[j].next_iteration_input]
scan_outputs_exits == [j \in DOMAIN scan_variables |-> scan_variables[j].exit_output]
scan_inputs == [j \in DOMAIN tensor_array_inputs |-> tensor_array_inputs[j].consumer]
scan_inputs_initial_values ==
    [j \in DOMAIN tensor_array_inputs |-> tensor_array_inputs[j].data_input_id]

\* TensorValueInfo
TensorValueInfo(id, dtype, shape) == [id |-> id, dtype |-> dtype, shape |-> shape]
\* TensorValueInfo(None, g): no id, so no shape and no dtype
NoTensor == TensorValueInfo(<<>>, "None", None)

----------------------------------------------------------------------------
(* The loops the pass is given.                                            *)

\* the ids of the tensors a loop comes with
StateInitId(i) == <<1, i>>
ScanInitId(j) == <<2, j>>
StateExitId(i) == <<3, i>>
ScanExitId(j) == <<4, j>>
StateBodyId(i) == <<5, i>>
ScanBodyId(j) == <<6, j>>
TaHandleId(j) == <<7, j>>
StateUserId(i) == <<8, i>>
ScanUserId(j) == <<9, j>>
SinkId == <<0, 0>>

StateDtype(i) == IF i = 1 THEN "int32" ELSE "float"

\* the i-th state variable: its enter input is named `name`, its exit is `exit`
StateVariable(i, exit) ==
    [is_tensor_array |-> FALSE,
     enter_input_id |-> StateInitId(i),
     switch_true_identity_output |-> TensorValueInfo(StateBodyId(i), StateDtype(i), Some(<<4>>)),
     next_iteration_input |-> TensorValueInfo(<<0, i>>, StateDtype(i), Some(<<4>>)),
     exit_output |-> exit]

\* the j-th tensor-array (scan output) variable
ScanVariable(j, exit) ==
    [is_tensor_array |-> TRUE,
     enter_input_id |-> TaHandleId(j),
     switch_true_identity_output |-> TensorValueInfo(<<0, 50 + j>>, "float", None),
     next_iteration_input |-> TensorValueInfo(<<0, 100 + j>>, "float", Some(<<4>>)),
     exit_output |-> exit]

\* the j-th input tensor array
InputTensorArray(j) ==
    [data_input_id |-> ScanInitId(j),
     consumer |-> TensorValueInfo(ScanBodyId(j), "float", Some(<<4>>))]

\* an exit that outer nodes read: its shape is what the graph inferred
StateExit(i, shape) == TensorValueInfo(StateExitId(i), StateDtype(i), shape)
ScanExit(j, shape) == TensorValueInfo(ScanExitId(j), "float", shape)

\* The graph around a loop: the producer of each initial value, the TensorArrayV3 of each
\* scan variable, the Exit node of each exit that has an id, a reader of each such exit,
\* and one node that reads them all.
LoopGraph(svars, snames, sshapes, tvars, tnames, tains, tashapes) ==
    LET exits == {svars[i].exit_output : i \in DOMAIN svars}
                     \cup {tvars[j].exit_output : j \in DOMAIN tvars}
        live == {e \in exits : e.id # <<>>}
        state_users == {[NoNode EXCEPT !.op = "Identity", !.input = <<svars[i].exit_output.id>>,
                                       !.output = <<StateUserId(i)>>]
                          : i \in {k \in DOMAIN svars : svars[k].exit_output.id # <<>>}}
        scan_users == {[NoNode EXCEPT !.op = "Identity", !.input = <<tvars[j].exit_output.id>>,
                                      !.output = <<ScanUserId(j)>>]
                         : j \in {k \in DOMAIN tvars : tvars[k].exit_output.id # <<>>}}
        all_exits == [i \in DOMAIN svars |-> svars[i].exit_output]
                         \o [j \in DOMAIN tvars |-> tvars[j].exit_output]
        read == SelectSeq(all_exits, LAMBDA e : e.id # <<>>)
        sink == [NoNode EXCEPT !.op = "Pack",
                               !.input = [k \in DOMAIN read |-> read[k].id],
                               !.output = <<SinkId>>]
    IN  {[NoNode EXCEPT !.op = "Const", !.name = snames[i], !.output = <<StateInitId(i)>>,
                        !.shapes = <<sshapes[i]>>, !.dtypes = <<StateDtype(i)>>]
           : i \in DOMAIN svars}
        \cup {[NoNode EXCEPT !.op = "TensorArrayV3", !.name = <<"ta">>,
                             !.tensor_array_name = tnames[j],
                             !.output = <<TaHandleId(j)>>]
                : j \in DOMAIN tvars}
        \cup {[NoNode EXCEPT !.op = "Placeholder", !.output = <<ScanInitId(j)>>,
                             !.shapes = <<tashapes[j]>>, !.dtypes = <<"float">>]
                : j \in DOMAIN tains}
        \cup {[NoNode EXCEPT !.op = "Exit", !.output = <<e.id>>,
                             !.shapes = <<e.shape>>, !.dtypes = <<e.dtype>>]
                : e \in live}
        \cup state_users \cup scan_users
        \cup (IF live = {} THEN {} ELSE {sink})

----------------------------------------------------------------------------
(* need_rewrite.                                                           *)

_get_rnn_scope_name(while_scope_name) ==
    LET parts == Split(while_scope_name)
    IN  Join(SliceDropLast2(parts)) \o <<"/">>

\* loop_properties.all_variables: the state variables, then the scan variables
all_variables == state_variables \o scan_variables

\* str.startswith taken for ==: a plausible slip
TaNameMatchesExactly(ta_name, ta_array_name_prefix) == ta_name = ta_array_name_prefix

TaNameMatches(ta_name, ta_array_name_prefix) == StartsWith(ta_name, ta_array_name_prefix)

\* One turn of _parse_rnn_loop's loop over all_variables.
\* acc = [found_time, is_rnn_out_ta ("None" or "False"), time_var, iteration_var],
\* the two variables as indexes into all_variables, 0 for None.
ParseStep(acc, k, val, enter_input_node, time_name, ta_array_name_prefix, iteration_counter_name) ==
    IF val.is_tensor_array
    THEN IF ~TaNameMatches(enter_input_node.tensor_array_name, ta_array_name_prefix)
         THEN [acc EXCEPT !.is_rnn_out_ta = "False"]
         ELSE acc
    ELSE IF enter_input_node.name = time_name
    THEN [acc EXCEPT !.found_time = TRUE, !.time_var = k]
    ELSE IF enter_input_node.name = iteration_counter_name
    THEN [acc EXCEPT !.iteration_var = k]
    ELSE acc

RECURSIVE ParseLoop(_, _, _, _, _, _, _)
ParseLoop(gr, acc, k, vals, time_name, ta_array_name_prefix, iteration_counter_name) ==
    IF k > Len(vals) THEN acc
    ELSE LET enter_input_node ==
                 CHOOSE n \in get_node_by_output(gr, vals[k].enter_input_id) : TRUE
         IN  ParseLoop(gr,
                       ParseStep(acc, k, vals[k], enter_input_node, time_name,
                                 ta_array_name_prefix, iteration_counter_name),
                       k + 1, vals, time_name, ta_array_name_prefix, iteration_counter_name)

\* the iteration counter looked for beside "time": a plausible slip
IterationCounterNameInRnnScope(rnn_scope, while_scope) == rnn_scope \o <<"iteration_counter">>

\* line 63
IterationCounterName(rnn_scope, while_scope) == while_scope \o <<"iteration_counter">>

\* _parse_rnn_loop: [ok, time_var, iteration_var]
_parse_rnn_loop(gr, rnn_scope, while_scope, vals) ==
    LET time_name == rnn_scope \o <<"time">>
        ta_array_name_prefix == rnn_scope \o <<"dynamic_rnn", "/", "output_">>
        iteration_counter_name == IterationCounterName(rnn_scope, while_scope)
        acc == ParseLoop(gr, [found_time |-> FALSE, is_rnn_out_ta |-> "None",
                              time_var |-> 0, iteration_var |-> 0],
                         1, vals, time_name, ta_array_name_prefix, iteration_counter_name)
    IN  [ok |-> ~(~acc.found_time \/ acc.is_rnn_out_ta = "False"),
         time_var |-> acc.time_var,
         iteration_var |-> acc.iteration_var]

\* need_rewrite without its last test: a plausible slip
HasTaInputAlways(ta_inputs) == TRUE

\* line 96
HasTaInput(ta_inputs) == Len(ta_inputs) > 0

\* need_rewrite: the context it leaves and what it returns (_parse_time_var, line 94,
\* only logs the time variable, which is set when it is called)
need_rewrite(gr, while_scope, vals, ta_inputs) ==
    LET rnn_scope == _get_rnn_scope_name(while_scope)
        parsed == _parse_rnn_loop(gr, rnn_scope, while_scope, vals)
    IN  [context |-> [rnn_scope |-> rnn_scope,
                      time_var |-> parsed.time_var,
                      iteration_var |-> parsed.iteration_var],
         ret |-> IF ~parsed.ok THEN FALSE
                 ELSE IF ~HasTaInput(ta_inputs) THEN FALSE
                 ELSE TRUE]

NoContext == [rnn_scope |-> <<>>, time_var |-> 0, iteration_var |-> 0]

\* the framework calls need_rewrite on the loop it found
NeedRewrite ==
    /\ mode = "need_rewrite"
    /\ need_result = "pending"
    /\ LET r == need_rewrite(g, while_context_scope, all_variables, tensor_array_inputs)
       IN  /\ context' = r.context
           /\ need_result' = IF r.ret THEN "True" ELSE "False"
    /\ UNCHANGED <<mode, while_context_scope, state_variables, scan_variables,
                   tensor_array_inputs, g, g_before, next_id, pc, init_values, scan_body_g,
                   scan_node, result, fault_at, adapt_call, adapt_ret>>

\* the while scopes tried
Scopes == {<<"rnn", "/", "while", "/">>,
           <<"a", "/", "rnn", "/", "while", "/">>,
           <<"while", "/">>}

\* the names an enter input of a state variable may have, for the while scope W
StateNames(W) ==
    LET S == _get_rnn_scope_name(W)
    IN  {S \o <<"time">>, W \o <<"time">>,
         S \o <<"iteration_counter">>, W \o <<"iteration_counter">>,
         S \o <<"Const">>}

\* the tensor_array_name a scan variable's TensorArrayV3 may have
TaNames(W) ==
    LET S == _get_rnn_scope_name(W)
    IN  {S \o <<"dynamic_rnn", "/", "output_", "0">>,
         S \o <<"dynamic_rnn", "/", "output_">>,
         S \o <<"dynamic_rnn", "/", "input_", "0">>,
         <<"x", "/">> \o S \o <<"dynamic_rnn", "/", "output_", "0">>}

Idle ==
    /\ g_before = {}
    /\ next_id = 0
    /\ pc = "idle"
    /\ init_values = <<>>
    /\ scan_body_g = [built |-> FALSE, inputs |-> <<>>]
    /\ scan_node = NoNode
    /\ result = "pending"
    /\ fault_at = "none"

NoAdaptCall ==
    /\ adapt_call = [handle_output |-> FALSE, shape |-> None]
    /\ adapt_ret = [returned |-> FALSE, raised |-> FALSE, nodes |-> <<>>]

\* a loop as the framework hands it to need_rewrite
InitNeedRewrite ==
    /\ mode = "need_rewrite"
    /\ while_context_scope \in Scopes
    /\ \E ns \in 0..MaxVars : \E no \in 0..(MaxVars - ns) : \E ni \in 0..(MaxVars - ns - no) :
       \E snames \in [1..ns -> StateNames(while_context_scope)] :
       \E tnames \in [1..no -> TaNames(while_context_scope)] :
          /\ state_variables = [i \in 1..ns |-> StateVariable(i, StateExit(i, Some(<<4>>)))]
          /\ scan_variables = [j \in 1..no |-> ScanVariable(j, ScanExit(j, Some(<<4>>)))]
          /\ tensor_array_inputs = [j \in 1..ni |-> InputTensorArray(j)]
          /\ g = LoopGraph(state_variables, snames, [i \in 1..ns |-> Some(<<4>>)],
                           scan_variables, tnames,
                           tensor_array_inputs, [j \in 1..ni |-> Some(<<4>>)])
    /\ context = NoContext
    /\ need_result = "pending"
    /\ Idle
    /\ NoAdaptCall

SpecNeedRewrite == InitNeedRewrite /\ [][NeedRewrite]_vars

----------------------------------------------------------------------------
(* The adapter called alone, on one tensor of any shape.                   *)

Dims == {-1, 1, 4}

\* the shapes of at most n axes
ShapesUpTo(n) == UNION {[1..r -> Dims] : r \in 0..n}

AdaptAlone ==
    /\ mode = "adapt"
    /\ ~adapt_ret.returned
    /\ LET r == _adapt_scan_sequence_input_or_output(
                    g, next_id,
                    IF adapt_call.handle_output THEN <<"scan_output_reshape">> ELSE <<"input">>,
                    StateInitId(1), adapt_call.handle_output)
       IN  /\ adapt_ret' = [returned |-> TRUE, raised |-> r.raised, nodes |-> r.nodes]
           /\ g' = r.g
           /\ next_id' = r.next_id
    /\ UNCHANGED <<mode, while_context_scope, state_variables, scan_variables,
                   tensor_array_inputs, context, need_result, g_before, pc, init_values,
                   scan_body_g, scan_node, result, fault_at, adapt_call>>

InitAdapt ==
    /\ mode = "adapt"
    /\ while_context_scope = <<>>
    /\ state_variables = <<>>
    /\ scan_variables = <<>>
    /\ tensor_array_inputs = <<>>
    /\ context = NoContext
    /\ need_result = "pending"
    /\ adapt_call \in [handle_output : BOOLEAN,
                       shape : {None} \cup {Some(sh) : sh \in ShapesUpTo(MaxRank)}]
    /\ adapt_ret = [returned |-> FALSE, raised |-> FALSE, nodes |-> <<>>]
    /\ g = {[NoNode EXCEPT !.op = "Placeholder", !.output = <<StateInitId(1)>>,
                           !.shapes = <<adapt_call.shape>>, !.dtypes = <<"float">>]}
    /\ Idle

SpecAdapt == InitAdapt /\ [][AdaptAlone]_vars

----------------------------------------------------------------------------
(* rewrite.                                                                *)

\* an exception leaving rewrite: what it would do without its except clause
FailPropagates(at) ==
    /\ result' = "raised"
    /\ pc' = "done"
    /\ fault_at' = at

\* rewrite's except clause: whatever was raised at step `at`, log it and return FAIL
Fail(at) ==
    /\ result' = "FAIL"
    /\ pc' = "done"
    /\ fault_at' = at

\* lines 107-109 and 112-114: adapt one initial value.  fault: the graph raises in the
\* first make_node.
AdaptInitialValue(input_id, fault, pc_next) ==
    IF fault
    THEN /\ Fail("adapt")
         /\ UNCHANGED <<g, next_id, init_values>>
    ELSE LET r == _adapt_scan_sequence_input_or_output(g, next_id, <<"input">>, input_id, FALSE)
         IN  /\ g' = r.g
             /\ next_id' = r.next_id
             /\ IF r.raised
                THEN /\ Fail("adapt")
                     /\ UNCHANGED init_values
                ELSE /\ init_values' = Append(init_values, r.nodes[Len(r.nodes)].output[1])
                     /\ pc' = pc_next
                     /\ UNCHANGED <<result, fault_at>>

AdaptStateInput ==
    /\ mode = "rewrite"
    /\ pc = "adapt_state"
    /\ LET i == Len(init_values) + 1
       IN  \E fault \in BOOLEAN :
              AdaptInitialValue(state_inputs_initial_values[i], fault,
                                IF i < Len(state_variables) THEN "adapt_state"
                                ELSE IF Len(tensor_array_inputs) > 0 THEN "adapt_scan"
                                ELSE "body")
    /\ UNCHANGED <<mode, while_context_scope, state_variables, scan_variables,
                   tensor_array_inputs, context, need_result, g_before, scan_body_g,
                   scan_node, adapt_call, adapt_ret>>

AdaptScanInput ==
    /\ mode = "rewrite"
    /\ pc = "adapt_scan"
    /\ LET j == Len(init_values) - Len(state_variables) + 1
       IN  \E fault \in BOOLEAN :
              AdaptInitialValue(scan_inputs_initial_values[j], fault,
                                IF j < Len(tensor_array_inputs) THEN "adapt_scan" ELSE "body")
    /\ UNCHANGED <<mode, while_context_scope, state_variables, scan_variables,
                   tensor_array_inputs, context, need_result, g_before, scan_body_g,
                   scan_node, adapt_call, adapt_ret>>

\* lines 118-122: add_graph_input for each state input, then for each scan input
BodyInputs == state_inputs \o scan_inputs

\* lines 116-122.  fault: construct_graph_from_nodes or add_graph_input raises.
ConstructBody ==
    /\ mode = "rewrite"
    /\ pc = "body"
    /\ \E fault \in BOOLEAN :
          IF fault
          THEN /\ Fail("body")
               /\ UNCHANGED scan_body_g
          ELSE /\ scan_body_g' = [built |-> TRUE, inputs |-> BodyInputs]
               /\ pc' = "create_scan"
               /\ UNCHANGED <<result, fault_at>>
    /\ UNCHANGED <<mode, while_context_scope, state_variables, scan_variables,
                   tensor_array_inputs, context, need_result, g, g_before, next_id,
                   init_values, scan_node, adapt_call, adapt_ret>>

\* an exit without id given no place in the declared shapes and dtypes: a plausible slip
AbsentExitSkipped(acc) == acc

\* lines 158-159
AbsentExitDeclared(acc) ==
    [acc EXCEPT !.shapes = Append(@, None), !.dtypes = Append(@, "None")]

\* The loop of _create_scan_node (lines 151-159) from the k-th exit on.
\* acc = [raised, g, shapes, dtypes].  [1] + shape raises TypeError when the exit's shape
\* is None.  remove_fault: the graph raises in the first remove_node.
RECURSIVE DeclareAndRemoveExits(_, _, _, _)
DeclareAndRemoveExits(acc, exits, k, remove_fault) ==
    IF k > Len(exits) THEN acc
    ELSE LET tensor_value_info == exits[k]
         IN  IF tensor_value_info.id # <<>>
             THEN IF IsNone(tensor_value_info.shape) \/ remove_fault
                  THEN [acc EXCEPT !.raised = TRUE]
                  ELSE LET n == CHOOSE m \in get_node_by_output(acc.g, tensor_value_info.id) :
                                    TRUE
                       IN  DeclareAndRemoveExits(
                               [acc EXCEPT
                                  !.shapes = Append(@, Some(<<1>> \o Val(tensor_value_info.shape))),
                                  !.dtypes = Append(@, tensor_value_info.dtype),
                                  !.g = remove_node(@, n)],
                               exits, k + 1, remove_fault)
             ELSE DeclareAndRemoveExits(AbsentExitDeclared(acc), exits, k + 1, remove_fault)

\* the scan node's inputs without the empty first one: a plausible slip
ScanNodeInputsNoPlaceholder(init) == init

\* line 164: [""] + init_values
ScanNodeInputs(init) == <<<<>>>> \o init

\* lines 164-168
MakeScanNode(nid, init, shapes, dtypes) ==
    [make_node(nid, "Scan", ScanNodeInputs(init), "",
               Len(state_outputs \o scan_outputs), shapes, dtypes, <<"custom_rnn_scan">>)
       EXCEPT !.num_scan_inputs = Len(scan_inputs)]

\* lines 124-128: _create_scan_node and the test of what it returned.
\* fault: "remove" (remove_node raises), "raise" (make_node raises), "no_node" (make_node
\* returns no node).
CreateScanNode ==
    /\ mode = "rewrite"
    /\ pc = "create_scan"
    /\ \E fault \in {"none", "remove", "raise", "no_node"} :
          LET exits == state_outputs_exits \o scan_outputs_exits
              acc == DeclareAndRemoveExits([raised |-> FALSE, g |-> g,
                                            shapes |-> <<>>, dtypes |-> <<>>],
                                           exits, 1, fault = "remove")
              made == MakeScanNode(next_id, init_values, acc.shapes, acc.dtypes)
          IN  /\ fault = "remove" => \E k \in DOMAIN exits : exits[k].id # <<>>
              /\ IF acc.raised
                 THEN /\ g' = acc.g
                      /\ Fail("create_scan")
                      /\ UNCHANGED <<next_id, scan_node>>
                 ELSE IF fault = "raise"
                 THEN /\ g' = acc.g
                      /\ Fail("create_scan")
                      /\ UNCHANGED <<next_id, scan_node>>
                 ELSE IF fault = "no_node"
                 THEN /\ g' = acc.g
                      /\ result' = "FAIL"
                      /\ pc' = "done"
                      /\ fault_at' = "no_scan_node"
                      /\ UNCHANGED <<next_id, scan_node>>
                 ELSE /\ g' = acc.g \cup {made}
                      /\ next_id' = next_id + 1
                      /\ scan_node' = made
                      /\ pc' = "attach"
                      /\ UNCHANGED <<result, fault_at>>
    /\ UNCHANGED <<mode, while_context_scope, state_variables, scan_variables,
                   tensor_array_inputs, context, need_result, g_before, init_values,
                   scan_body_g, adapt_call, adapt_ret>>

\* line 130.  fault: set_body_graph_as_attr raises.
AttachBody ==
    /\ mode = "rewrite"
    /\ pc = "attach"
    /\ \E fault \in BOOLEAN :
          IF fault
          THEN /\ Fail("attach")
               /\ UNCHANGED <<g, scan_node>>
          ELSE /\ scan_node' = [scan_node EXCEPT !.body = scan_body_g.inputs]
               /\ g' = (g \ {scan_node}) \cup {scan_node'}
               /\ pc' = "connect"
               /\ UNCHANGED <<result, fault_at>>
    /\ UNCHANGED <<mode, while_context_scope, state_variables, scan_variables,
                   tensor_array_inputs, context, need_result, g_before, next_id,
                   init_values, scan_body_g, adapt_call, adapt_ret>>

\* the index never advanced: a plausible slip
NextIndexStuck(index, out_tensor_value_info) == index

\* lines 182 and 189
NextIndex(index, out_tensor_value_info) == index + 1

\* The two loops of _connect_scan_with_output from the k-th exit on (the first n_state
\* exits are the state exits).  acc = [raised, g, next_id]; index is Python's, from 0.
RECURSIVE ConnectExits(_, _, _, _, _, _)
ConnectExits(acc, exits, k, index, n_state, scan) ==
    IF k > Len(exits) \/ acc.raised THEN acc
    ELSE LET out_tensor_value_info == exits[k]
         IN  IF out_tensor_value_info.id # <<>>
             THEN LET r == _adapt_scan_sequence_input_or_output(
                               acc.g, acc.next_id,
                               IF k <= n_state THEN <<"state_output_reshape">>
                                               ELSE <<"scan_output_reshape">>,
                               scan.output[index + 1], TRUE)
                  IN  IF r.raised
                      THEN [raised |-> TRUE, g |-> r.g, next_id |-> r.next_id]
                      ELSE ConnectExits(
                               [raised |-> FALSE,
                                g |-> replace_all_inputs(r.g, out_tensor_value_info.id,
                                                         r.nodes[Len(r.nodes)].output[1]),
                                next_id |-> r.next_id],
                               exits, k + 1, NextIndex(index, out_tensor_value_info),
                               n_state, scan)
             ELSE ConnectExits(acc, exits, k + 1, NextIndex(index, out_tensor_value_info),
                               n_state, scan)

\* lines 131-133.  fault: the graph raises in the first call.
ConnectScanWithOutput ==
    /\ mode = "rewrite"
    /\ pc = "connect"
    /\ \E fault \in BOOLEAN :
          IF fault
          THEN /\ Fail("connect")
               /\ UNCHANGED <<g, next_id>>
          ELSE LET acc == ConnectExits([raised |-> FALSE, g |-> g, next_id |-> next_id],
                                       state_outputs_exits \o scan_outputs_exits, 1, 0,
                                       Len(state_outputs_exits), scan_node)
               IN  /\ g' = acc.g
                   /\ next_id' = acc.next_id
                   /\ IF acc.raised
                      THEN Fail("connect")
                      ELSE /\ result' = "OK"
                           /\ pc' = "done"
                           /\ UNCHANGED fault_at
    /\ UNCHANGED <<mode, while_context_scope, state_variables, scan_variables,
                   tensor_array_inputs, context, need_result, g_before, init_values,
                   scan_body_g, scan_node, adapt_call, adapt_ret>>

\* the shapes the graph may have inferred for a tensor
InferredShapes == {None, Some(<<4>>), Some(<<-1, -1>>)}

RnnWhileScope == <<"rnn", "/", "while", "/">>

\* the name of the enter input of the i-th state variable of a dynamic_rnn loop
RnnStateName(i) ==
    IF i = 1 THEN <<"rnn", "/", "time">>
    ELSE IF i = 2 THEN <<"rnn", "/", "while", "/", "iteration_counter">>
    ELSE <<"rnn", "/", "Const">>

\* a loop that need_rewrite accepted, as the framework hands it to rewrite
Init ==
    /\ mode = "rewrite"
    /\ while_context_scope = RnnWhileScope
    /\ \E ns \in 1..MaxLoop : \E ni \in 1..(MaxLoop - ns) : \E no \in 0..(MaxLoop - ns - ni) :
       \E sshapes \in [1..ns -> InferredShapes] :
       \E tashapes \in [1..ni -> InferredShapes] :
       \E sexits \in [1..ns -> BOOLEAN \X InferredShapes] :
       \E texits \in [1..no -> BOOLEAN \X InferredShapes] :
          /\ \A i \in 1..ns : ~sexits[i][1] => sexits[i][2] = None
          /\ \A j \in 1..no : ~texits[j][1] => texits[j][2] = None
          /\ state_variables =
                 [i \in 1..ns |-> StateVariable(i, IF sexits[i][1]
                                                   THEN StateExit(i, sexits[i][2])
                                                   ELSE NoTensor)]
          /\ scan_variables =
                 [j \in 1..no |-> ScanVariable(j, IF texits[j][1]
                                                  THEN ScanExit(j, texits[j][2])
                                                  ELSE NoTensor)]
          /\ tensor_array_inputs = [j \in 1..ni |-> InputTensorArray(j)]
          /\ g = LoopGraph(state_variables, [i \in 1..ns |-> RnnStateName(i)], sshapes,
                           scan_variables,
                           [j \in 1..no |-> <<"rnn", "/", "dynamic_rnn", "/", "output_", "0">>],
                           tensor_array_inputs, tashapes)
    /\ LET r == need_rewrite(g, while_context_scope, all_variables, tensor_array_inputs)
       IN  /\ r.ret
           /\ context = r.context
           /\ need_result = "True"
    /\ g_before = g
    /\ next_id = 0
    /\ pc = "adapt_state"
    /\ init_values = <<>>
    /\ scan_body_g = [built |-> FALSE, inputs |-> <<>>]
    /\ scan_node = NoNode
    /\ result = "pending"
    /\ fault_at = "none"
    /\ NoAdaptCall

Next ==
    \/ AdaptStateInput
    \/ AdaptScanInput
    \/ ConstructBody
    \/ CreateScanNode
    \/ AttachBody
    \/ ConnectScanWithOutput

Spec == Init /\ [][Next]_vars

----------------------------------------------------------------------------
(* The properties checked of need_rewrite (under SpecNeedRewrite).         *)

\* the derived scope of the loop
RnnScope == _get_rnn_scope_name(while_context_scope)

\* the node that produces a loop variable's enter input
EnterInputNode(val) == CHOOSE n \in get_node_by_output(g, val.enter_input_id) : TRUE

\* the non-accumulator loop variables whose enter input node has the name
StateVarsNamed(name) ==
    {k \in DOMAIN all_variables :
        ~all_variables[k].is_tensor_array /\ EnterInputNode(all_variables[k]).name = name}

HasStepCounter == StateVarsNamed(RnnScope \o <<"time">>) # {}

\* the accumulator variables whose tensor_array_name has (b = TRUE) or lacks the prefix
AccumulatorsPrefixed(b) ==
    {k \in DOMAIN all_variables :
        /\ all_variables[k].is_tensor_array
        /\ b = StartsWith(EnterInputNode(all_variables[k]).tensor_array_name,
                          RnnScope \o <<"dynamic_rnn", "/", "output_">>)}

\* C1: need_rewrite returns false whenever (a) no non-accumulator variable's enter input
\* is named rnn_scope + "time", or (b) some accumulator variable's tensor_array_name does
\* not start with rnn_scope + "dynamic_rnn/output_", or (c) the loop has no
\* sequence-accumulator input.
C1_RejectsNonMatchingLoops ==
    need_result # "pending" =>
        ((\/ ~HasStepCounter
          \/ AccumulatorsPrefixed(FALSE) # {}
          \/ Len(tensor_array_inputs) = 0) => need_result = "False")

\* a loop rejected for one misnamed accumulator alone: it has a step counter, another
\* accumulator that matches, and a tensor-array input
C1_Witness ==
    /\ need_result = "False"
    /\ HasStepCounter
    /\ AccumulatorsPrefixed(FALSE) # {}
    /\ AccumulatorsPrefixed(TRUE) # {}
    /\ Len(tensor_array_inputs) > 0

\* C2, as claimed: a loop with a step counter and at least one correctly prefixed
\* accumulator is accepted.
C2_AcceptsOnOneMatchingAccumulator ==
    need_result # "pending" =>
        (HasStepCounter /\ AccumulatorsPrefixed(TRUE) # {} => need_result = "True")

\* C2, amended: a loop with a step counter, no accumulator variable that lacks the
\* prefix and at least one tensor-array input is accepted.
C2_AcceptsMatchingLoops ==
    need_result # "pending" =>
        ((/\ HasStepCounter
          /\ AccumulatorsPrefixed(FALSE) = {}
          /\ Len(tensor_array_inputs) > 0) => need_result = "True")

\* an accepted loop with a correctly prefixed accumulator
C2_Witness ==
    /\ need_result = "True"
    /\ AccumulatorsPrefixed(TRUE) # {}

\* what need_rewrite recorded as variable `recorded` is a variable named `name`, and
\* one is recorded whenever there is one
RecordsVarNamed(recorded, name) ==
    /\ recorded # 0 <=> StateVarsNamed(name) # {}
    /\ recorded # 0 => recorded \in StateVarsNamed(name)

\* a loop without iteration counter is accepted when the other conditions hold
AcceptedWithoutIterationCounter ==
    (/\ context.iteration_var = 0
     /\ HasStepCounter
     /\ AccumulatorsPrefixed(FALSE) = {}
     /\ Len(tensor_array_inputs) > 0) => need_result = "True"

\* C10, as claimed: time_var is the variable named S + "time" and iteration_var the one
\* named S + "iteration_counter", S the derived scope; a loop without iteration counter
\* is still accepted.
C10_IterationCounterInDerivedScope ==
    need_result # "pending" =>
        /\ RecordsVarNamed(context.time_var, RnnScope \o <<"time">>)
        /\ RecordsVarNamed(context.iteration_var, RnnScope \o <<"iteration_counter">>)
        /\ AcceptedWithoutIterationCounter

\* C10, amended: time_var is the variable named S + "time", iteration_var the one named
\* W + "iteration_counter", W the while-loop scope itself; a loop without iteration
\* counter is still accepted.
C10_IterationCounterInWhileScope ==
    need_result # "pending" =>
        /\ RecordsVarNamed(context.time_var, RnnScope \o <<"time">>)
        /\ RecordsVarNamed(context.iteration_var, while_context_scope \o <<"iteration_counter">>)
        /\ AcceptedWithoutIterationCounter

\* an accepted loop with both counters recorded, and a variable named
\* S + "iteration_counter" that is not the one recorded
C10_Witness ==
    /\ need_result = "True"
    /\ context.time_var # 0
    /\ context.iteration_var # 0
    /\ StateVarsNamed(RnnScope \o <<"iteration_counter">>) # {}

----------------------------------------------------------------------------
(* The properties checked of rewrite (under Spec).                         *)

\* the exits in the order of the scan node's outputs
Exits == state_outputs_exits \o scan_outputs_exits

\* an exit without id comes before one with an id
AbsentExitBeforePresent ==
    \E k \in DOMAIN Exits : \E m \in DOMAIN Exits :
        k < m /\ Exits[k].id = <<>> /\ Exits[m].id # <<>>

\* C3: rewrite returns OK or FAIL and nothing else; a fault at any step, and a scan node
\* that was not created, give FAIL; OK is returned only when every step completed.
C3_RewriteReturnsOkOrFail ==
    /\ result \in {"pending", "OK", "FAIL"}
    /\ pc = "done" <=> result \in {"OK", "FAIL"}
    /\ fault_at # "none" => result = "FAIL"
    /\ result = "OK" =>
          /\ fault_at = "none"
          /\ Len(init_values) = Len(state_variables) + Len(tensor_array_inputs)
          /\ scan_body_g.built
          /\ scan_node # NoNode
          /\ scan_node \in g
          /\ scan_node.body = scan_body_g.inputs

\* rewrite returned after a fault while reconnecting the outputs
C3_Witness ==
    /\ pc = "done"
    /\ fault_at = "connect"

\* C4: whenever rewrite returns FAIL the graph is as it was before the call.
C4_FailLeavesGraphUnchanged == result = "FAIL" => g = g_before

\* the node of the graph that has the output
NodeOf(gr, id) == CHOOSE n \in get_node_by_output(gr, id) : TRUE

\* the tensor is the output of a Reshape node the adapter made for `target_name`, whose
\* data input is `data`
IsReshapeOf(id, data, target_name) ==
    \E r \in g : /\ r.op = "Reshape"
                 /\ r.name = target_name
                 /\ r.output = <<id>>
                 /\ r.input[1] = data

\* C5: after rewrite returned OK no node reads the id of an exit; every input that read
\* the k-th exit now reads the Reshape of the scan node's k-th output, the exits without
\* id counted in k.
C5_ExitsReconnected ==
    result = "OK" =>
        \A k \in DOMAIN Exits :
            Exits[k].id # <<>> =>
                /\ Exits[k].id \notin Consumed(g)
                /\ \A n \in g_before : \A p \in DOMAIN n.input :
                       n.input[p] = Exits[k].id /\ n.op # "Exit" =>
                           /\ get_node_by_output(g, n.output[1]) # {}
                           /\ IsReshapeOf(NodeOf(g, n.output[1]).input[p],
                                          scan_node.output[k],
                                          IF k <= Len(state_outputs_exits)
                                          THEN <<"state_output_reshape">>
                                          ELSE <<"scan_output_reshape">>)

\* rewrite returned OK on a loop whose first exit has no id and whose later exit is read
C5_Witness ==
    /\ result = "OK"
    /\ AbsentExitBeforePresent

\* C6: the scan node's inputs are the empty placeholder, the adapted initial value of
\* each state input, then that of each scan input; num_scan_inputs is the number of scan
\* inputs; the body graph declares the state inputs, then the scan inputs.
C6_ScanNodeInputs ==
    scan_node # NoNode =>
        /\ Len(scan_node.input) = 1 + Len(state_inputs) + Len(scan_inputs)
        /\ scan_node.input[1] = <<>>
        /\ \A i \in DOMAIN state_inputs :
               IsReshapeOf(scan_node.input[1 + i], state_inputs_initial_values[i], <<"input">>)
        /\ \A j \in DOMAIN scan_inputs :
               IsReshapeOf(scan_node.input[1 + Len(state_inputs) + j],
                           scan_inputs_initial_values[j], <<"input">>)
        /\ scan_node.num_scan_inputs = Len(scan_inputs)
        /\ scan_body_g.inputs = state_inputs \o scan_inputs
        /\ pc \in {"connect", "done"} /\ fault_at # "attach" =>
               scan_node.body = state_inputs \o scan_inputs

\* rewrite returned OK on a loop of two state inputs and a scan input
C6_Witness ==
    /\ result = "OK"
    /\ Len(state_inputs) = 2
    /\ Len(scan_inputs) = 1

\* C7: the scan node declares one output per state output, then one per scan output, and
\* as many shapes and dtypes; at the place of an exit with an id these are [1] + its shape
\* and its dtype, at the place of an exit without id they are unset.
C7_ScanNodeOutputs ==
    scan_node # NoNode =>
        /\ Len(scan_node.output) = Len(state_outputs) + Len(scan_outputs)
        /\ Len(scan_node.shapes) = Len(scan_node.output)
        /\ Len(scan_node.dtypes) = Len(scan_node.output)
        /\ \A k \in DOMAIN Exits :
               IF Exits[k].id # <<>>
               THEN /\ scan_node.shapes[k] = Some(<<1>> \o Val(Exits[k].shape))
                    /\ scan_node.dtypes[k] = Exits[k].dtype
               ELSE /\ scan_node.shapes[k] = None
                    /\ scan_node.dtypes[k] = "None"

\* a scan node made for a loop whose first exit has no id and whose later exit has one
C7_Witness ==
    /\ scan_node # NoNode
    /\ AbsentExitBeforePresent

----------------------------------------------------------------------------
(* The properties checked of the adapter (under SpecAdapt).                *)

\* the op types of a sequence of nodes
Ops(nodes) == [k \in DOMAIN nodes |-> nodes[k].op]

\* the unresolved dimensions of the adapted tensor after its first axis
UnresolvedAfterFirst == Count(SliceFrom(Val(adapt_call.shape), 1), -1)

\* C8: for an output whose shape without the first axis has two or more unresolved
\* dimensions the adapter returns Shape, Cast to float, Slice dropping the first axis,
\* Cast to int64, Reshape, the Reshape's shape input being the last Cast; for one whose
\* shape is known with at most one it returns Shape, the constant shape without the
\* first axis, Reshape.
C8_OutputAdapterPath ==
    adapt_ret.returned /\ adapt_call.handle_output /\ ~IsNone(adapt_call.shape) =>
        LET nodes == adapt_ret.nodes
        IN  IF UnresolvedAfterFirst >= 2
            THEN /\ ~adapt_ret.raised
                 /\ Ops(nodes) = <<"Shape", "Cast", "Slice", "Cast", "Reshape">>
                 /\ nodes[1].input = <<StateInitId(1)>>
                 /\ nodes[2].input = nodes[1].output /\ nodes[2].attr = ToFloat
                 /\ nodes[3].input = nodes[2].output /\ nodes[3].attr = SliceDropFirstAxis
                 /\ nodes[4].input = nodes[3].output /\ nodes[4].attr = ToInt64
                 /\ nodes[5].input = <<StateInitId(1), nodes[4].output[1]>>
            ELSE /\ ~adapt_ret.raised
                 /\ Ops(nodes) = <<"Shape", "Const", "Reshape">>
                 /\ nodes[1].input = <<StateInitId(1)>>
                 /\ nodes[2].value = SliceFrom(Val(adapt_call.shape), 1)
                 /\ nodes[3].input = <<StateInitId(1), nodes[2].output[1]>>

\* the adapter returned for an output of unresolved second and third axes
C8_Witness ==
    /\ adapt_ret.returned
    /\ adapt_call.handle_output
    /\ ~IsNone(adapt_call.shape)
    /\ UnresolvedAfterFirst >= 2

\* C9: for an input the adapter returns nodes that end in a Reshape, whatever the shape:
\* Shape, the constant [1] + shape, Reshape when the shape is known with at most one
\* unresolved dimension; Shape, the constant [1], Concat of it and the Shape, Reshape
\* in every other case, the shape not known at all included; it never raises.
C9_InputAdapterAlwaysReturns ==
    adapt_ret.returned /\ ~adapt_call.handle_output =>
        LET nodes == adapt_ret.nodes
        IN  /\ ~adapt_ret.raised
            /\ IF ~IsNone(adapt_call.shape) /\ Count(Val(adapt_call.shape), -1) <= 1
               THEN /\ Ops(nodes) = <<"Shape", "Const", "Reshape">>
                    /\ nodes[2].value = <<1>> \o Val(adapt_call.shape)
                    /\ nodes[3].input = <<StateInitId(1), nodes[2].output[1]>>
               ELSE /\ Ops(nodes) = <<"Shape", "Const", "Concat", "Reshape">>
                    /\ nodes[2].value = <<1>>
                    /\ nodes[3].input = <<nodes[2].output[1], nodes[1].output[1]>>
                    /\ nodes[4].input = <<StateInitId(1), nodes[3].output[1]>>

====
